---------------------------- MODULE Spec2Model ----------------------------
(***************************************************************************)
(* Revision resolution and batch review orchestration of src/app.py.       *)
(*                                                                         *)
(* Filenames and paths are sequences of one-character strings, so that the *)
(* string operations of the source (lower, endswith, re.match, the         *)
(* comparison of revision suffixes, split, replace, basename) are computed *)
(* character by character.  The assessment text is a sequence of lines,    *)
(* a line a sequence of tokens.  The score is kept in half points, the     *)
(* float 0.5 being one unit.                                               *)
(***************************************************************************)
EXTENDS Integers, Sequences, FiniteSets, TLC

VARIABLES
    folder,            \* selection: the names saved in one session folder
    runs,              \* selection: the calls of get_latest_revisions so far
    pc,                \* upload: position of each request
    saved,             \* upload: the names in each session folder
    all_drawings,      \* upload: the work list, paths
    drawing_index,     \* upload: identity -> filenames, in insertion order
    item,              \* upload: position of the batch loop in the work list
    report_links,      \* upload: the "reports" list
    summary_table,     \* upload: the "summary" list
    steps,             \* upload: what each iteration of the loop attempted
    processed_reports, \* the files saved under PROCESSED_FOLDER
    total,             \* scoring: the running total, in half points
    risk,              \* scoring: the risk tier once computed
    seen               \* scoring: the kinds of the lines read so far

vars == <<folder, runs, pc, saved, all_drawings, drawing_index, item,
          report_links, summary_table, steps, processed_reports, total, risk,
          seen>>

selectVars == <<folder, runs>>
uploadVars == <<pc, saved, all_drawings, drawing_index, item, report_links,
                summary_table, steps, processed_reports>>
scoreVars == <<total, risk, seen>>

---------------------------------------------------------------------------
(* Bounds *)

MaxFiles == 3

MaxLines == 31

MaxIndented == 2

---------------------------------------------------------------------------
(* Characters and strings *)

\* The characters used, in code point order: '-' '.' '/' digits, upper
\* case, '_', lower case.
Ascii ==
    <<"-", ".", "/", "0", "1", "2", "3", "4", "5", "6", "7", "8", "9",
      "A", "B", "C", "D", "E", "F", "G", "H", "I", "J", "K", "L", "M",
      "N", "O", "P", "Q", "R", "S", "T", "U", "V", "W", "X", "Y", "Z",
      "_",
      "a", "b", "c", "d", "e", "f", "g", "h", "i", "j", "k", "l", "m",
      "n", "o", "p", "q", "r", "s", "t", "u", "v", "w", "x", "y", "z">>

Ord(c) == CHOOSE i \in 1..Len(Ascii) : Ascii[i] = c

Digits == {"0", "1", "2", "3", "4", "5", "6", "7", "8", "9"}

Upper == {Ascii[i] : i \in Ord("A")..Ord("Z")}

\* str.lower, one character
LowerChar(c) ==
    IF c \in Upper THEN Ascii[Ord(c) - Ord("A") + Ord("a")] ELSE c

\* str.lower
Lower(s) == [i \in 1..Len(s) |-> LowerChar(s[i])]

\* str.endswith, one suffix
EndsWith(s, suffix) ==
    /\ Len(suffix) <= Len(s)
    /\ SubSeq(s, Len(s) - Len(suffix) + 1, Len(s)) = suffix

\* str.startswith at position i
HasAt(s, i, part) ==
    /\ i + Len(part) - 1 <= Len(s)
    /\ SubSeq(s, i, i + Len(part) - 1) = part

\* Python's > on two strings: by code point, a proper prefix being smaller
RECURSIVE StrGreater(_, _)
StrGreater(a, b) ==
    IF a = <<>> THEN FALSE
    ELSE IF b = <<>> THEN TRUE
    ELSE IF Head(a) = Head(b) THEN StrGreater(Tail(a), Tail(b))
    ELSE Ord(Head(a)) > Ord(Head(b))

\* str.replace of one character by another
ReplaceChar(s, old, new) ==
    [i \in 1..Len(s) |-> IF s[i] = old THEN new ELSE s[i]]

\* str.split on one character: the parts, in order
RECURSIVE Split(_, _)
Split(s, sep) ==
    IF \A i \in 1..Len(s) : s[i] # sep THEN <<s>>
    ELSE LET k == CHOOSE i \in 1..Len(s) :
                      /\ s[i] = sep
                      /\ \A j \in 1..(i - 1) : s[j] # sep
         IN  <<SubSeq(s, 1, k - 1)>> \o Split(SubSeq(s, k + 1, Len(s)), sep)

\* os.path.join(folder, name)
PathJoin(dir, name) == dir \o <<"/">> \o name

\* os.path.basename: what follows the last '/'
Basename(path) ==
    LET cuts == {i \in 1..Len(path) : path[i] = "/"}
    IN  IF cuts = {} THEN path
        ELSE SubSeq(path, (CHOOSE i \in cuts : \A j \in cuts : j <= i) + 1,
                    Len(path))

---------------------------------------------------------------------------
(* The files a session may hold *)

F_C1 == <<"D", "R", "-", "A", "B", "-", "1", "0", "0", "-", "C", "1", ".", "p", "d", "f">>
F_C2 == <<"D", "R", "-", "A", "B", "-", "1", "0", "0", "-", "C", "2", ".", "p", "d", "f">>
F_P10 == <<"D", "R", "-", "A", "B", "-", "1", "0", "0", "-", "P", "1", "0", ".", "p", "d", "f">>
F_P1 == <<"D", "R", "-", "A", "B", "-", "1", "0", "0", "-", "P", "1", ".", "d", "w", "g">>
F_D3 == <<"D", "R", "-", "C", "D", "-", "7", "-", "D", "3", ".", "d", "x", "f">>
F_notes == <<"n", "o", "t", "e", "s", ".", "p", "d", "f">>
F_site_plan == <<"s", "i", "t", "e", "-", "p", "l", "a", "n", ".", "p", "d", "f">>
F_PLAN == <<"P", "L", "A", "N", ".", "P", "D", "F">>
F_readme == <<"r", "e", "a", "d", "m", "e", ".", "t", "x", "t">>
F_a_dot_b == <<"a", ".", "b", ".", "p", "d", "f">>
F_a_under_b == <<"a", "_", "b", ".", "p", "d", "f">>

FileUniverse ==
    {F_C1, F_C2, F_P10, F_P1, F_D3, F_notes, F_site_plan, F_PLAN, F_readme,
     F_a_dot_b, F_a_under_b}

\* os.listdir: the names of a folder in an arbitrary order
Listings(names) ==
    {l \in [1..Cardinality(names) -> names] :
        \A i, j \in 1..Cardinality(names) : i # j => l[i] # l[j]}

---------------------------------------------------------------------------
(* get_latest_revisions *)

Extensions == {<<".", "p", "d", "f">>, <<".", "d", "w", "g">>,
               <<".", "d", "x", "f">>}

\* filename.lower().endswith(('.pdf', '.dwg', '.dxf'))
HasDrawingExtension(filename) ==
    \E e \in Extensions : EndsWith(Lower(filename), e)

\* The extension test of every name of the universe, computed once
DrawingNames == {f \in FileUniverse : HasDrawingExtension(f)}

\* The first position from i on whose character is not in class
RECURSIVE SpanEnd(_, _, _)
SpanEnd(s, i, class) ==
    IF i <= Len(s) /\ s[i] \in class THEN SpanEnd(s, i + 1, class) ELSE i

NoMatch == [matched |-> FALSE, base |-> <<>>, rev |-> <<>>]

\* re.match(r'(DR-[A-Z]+-\d+)-([CPD]\d+)\.', filename).  Each repetition is
\* followed by a character outside its class, so the greedy match is the
\* only one.
ReMatch(filename) ==
    LET a == SpanEnd(filename, 4, Upper)
        b == SpanEnd(filename, a + 1, Digits)
        c == SpanEnd(filename, b + 2, Digits)
    IN  IF /\ HasAt(filename, 1, <<"D", "R", "-">>)
           /\ a > 4
           /\ HasAt(filename, a, <<"-">>)
           /\ b > a + 1
           /\ HasAt(filename, b, <<"-">>)
           /\ b + 1 <= Len(filename)
           /\ filename[b + 1] \in {"C", "P", "D"}
           /\ c > b + 2
           /\ HasAt(filename, c, <<".">>)
        THEN [matched |-> TRUE,
              base |-> SubSeq(filename, 1, b - 1),
              rev |-> SubSeq(filename, b + 1, c - 1)]
        ELSE NoMatch

\* The match of every name of the universe, computed once
MatchOf == [f \in FileUniverse |-> ReMatch(f)]

\* dict.get(key): the entries of a dict are kept in insertion order
DictHas(d, key) == \E i \in 1..Len(d) : d[i].key = key

DictGet(d, key) == d[CHOOSE i \in 1..Len(d) : d[i].key = key]

\* d[key] = value: an existing key keeps its place
DictSet(d, key, value) ==
    IF DictHas(d, key)
    THEN [i \in 1..Len(d) |->
            IF d[i].key = key THEN [key |-> key, value |-> value] ELSE d[i]]
    ELSE Append(d, [key |-> key, value |-> value])

\* rev[1:] > current[1][1:], a comparison of strings
RevNewer(rev, current_rev) == StrGreater(Tail(rev), Tail(current_rev))

NA == <<"N", "A">>

\* ScanFile with the fallback branch left out: a name that does not parse
\* is skipped
ScanFileSkipsUnparsed(drawings, filename) ==
    IF filename \notin DrawingNames THEN drawings
    ELSE LET match == MatchOf[filename]
         IN  IF match.matched
             THEN IF \/ ~DictHas(drawings, match.base)
                     \/ RevNewer(match.rev,
                                 DictGet(drawings, match.base).value.rev)
                  THEN DictSet(drawings, match.base,
                               [filename |-> filename, rev |-> match.rev])
                  ELSE drawings
             ELSE drawings

\* One iteration of the loop over os.listdir(folder)
ScanFile(drawings, filename) ==
    IF filename \notin DrawingNames THEN drawings
    ELSE LET match == MatchOf[filename]
         IN  IF match.matched
             THEN IF \/ ~DictHas(drawings, match.base)
                     \/ RevNewer(match.rev,
                                 DictGet(drawings, match.base).value.rev)
                  THEN DictSet(drawings, match.base,
                               [filename |-> filename, rev |-> match.rev])
                  ELSE drawings
             ELSE DictSet(drawings, filename,
                          [filename |-> filename, rev |-> NA])

RECURSIVE ScanListing(_, _)
ScanListing(drawings, listing) ==
    IF listing = <<>> THEN drawings
    ELSE ScanListing(ScanFile(drawings, Head(listing)), Tail(listing))

\* get_latest_revisions(folder), os.listdir(folder) having returned listing
get_latest_revisions(dir, listing) ==
    LET drawings == ScanListing(<<>>, listing)
    IN  [i \in 1..Len(drawings) |-> PathJoin(dir, drawings[i].value.filename)]

---------------------------------------------------------------------------
(* score_compliance *)

\* The three result symbols of the prompt's output format, and the marker
PassSymbol == "[pass]"

CautionSymbol == "[caution]"

FailSymbol == "[fail]"

Marker == "Result:"

Blank == " "

\* The lines an assessment text is made of
LinePass == <<Marker, Blank, PassSymbol, Blank, "ok">>
LineCaution == <<Marker, Blank, CautionSymbol, Blank, "check">>
LineBoth == <<Marker, Blank, PassSymbol, Blank, "/", Blank, CautionSymbol>>
LineFail == <<Marker, Blank, FailSymbol>>
LineIndentedPass == <<Blank, Blank, Marker, Blank, PassSymbol>>
LineIndentedCaution == <<Blank, Marker, Blank, CautionSymbol, Blank>>
LineIndentedFail == <<Blank, Marker, Blank, FailSymbol>>
LineNote == <<"Note:", Blank, PassSymbol, Blank, CautionSymbol>>
LineFinal == <<"Final", Blank, Marker, Blank, PassSymbol>>
LineEmpty == <<>>

LineUniverse ==
    {LinePass, LineCaution, LineBoth, LineFail, LineIndentedPass,
     LineIndentedCaution, LineIndentedFail, LineNote, LineFinal, LineEmpty}

\* str.strip: leading and trailing whitespace removed
RECURSIVE LStrip(_)
LStrip(line) ==
    IF line # <<>> /\ Head(line) = Blank THEN LStrip(Tail(line)) ELSE line

RECURSIVE RStrip(_)
RStrip(line) ==
    IF line # <<>> /\ line[Len(line)] = Blank
    THEN RStrip(SubSeq(line, 1, Len(line) - 1))
    ELSE line

Strip(line) == RStrip(LStrip(line))

\* line.strip().startswith("Result:")
IsResultLine(line) == Strip(line) # <<>> /\ Head(Strip(line)) = Marker

\* symbol in line
Contains(line, symbol) == \E i \in 1..Len(line) : line[i] = symbol

LowThreshold == 27

MediumThreshold == 20

ChecklistSize == 30

\* ScoreLine with the elif written as a second if: a line with both
\* symbols is counted twice
ScoreLineCountsBoth(t, line) ==
    IF IsResultLine(line)
    THEN t + (IF Contains(line, PassSymbol) THEN 2 ELSE 0)
           + (IF Contains(line, CautionSymbol) THEN 1 ELSE 0)
    ELSE t

\* The body of the loop over report_text.splitlines(), in half points
ScoreLine(t, line) ==
    IF IsResultLine(line)
    THEN IF Contains(line, PassSymbol) THEN t + 2
         ELSE IF Contains(line, CautionSymbol) THEN t + 1
         ELSE t
    ELSE t

\* RiskOf with the first comparison strict
RiskOfStrict(t) ==
    IF t > 2 * LowThreshold THEN "Low"
    ELSE IF t >= 2 * MediumThreshold THEN "Medium"
    ELSE "High"

\* The risk tier of a total given in half points
RiskOf(t) ==
    IF t >= 2 * LowThreshold THEN "Low"
    ELSE IF t >= 2 * MediumThreshold THEN "Medium"
    ELSE "High"

RECURSIVE SumLines(_, _)
SumLines(t, text) ==
    IF text = <<>> THEN t ELSE SumLines(ScoreLine(t, Head(text)), Tail(text))

\* score_compliance(report_text)
score_compliance(report_text) ==
    LET t == SumLines(0, report_text)
    IN  [score |-> t, risk |-> RiskOf(t)]

\* What the lines read so far were, read literally: a line starts with the
\* marker when its first token is the marker; an indented line is one that
\* starts with the marker only once stripped.
StartsWithMarker(line) == line # <<>> /\ Head(line) = Marker

IsIndented(line) == IsResultLine(line) /\ ~StartsWithMarker(line)

HasPass(line) == Contains(line, PassSymbol)

HasCautionOnly(line) ==
    Contains(line, CautionSymbol) /\ ~Contains(line, PassSymbol)

NothingSeen ==
    [pass |-> 0, caution |-> 0, indentedPass |-> 0, indentedCaution |-> 0,
     otherResult |-> FALSE, indentedOther |-> FALSE, symbolsElsewhere |-> FALSE]

Noted(s, line) ==
    IF StartsWithMarker(line)
    THEN IF HasPass(line) THEN [s EXCEPT !.pass = @ + 1]
         ELSE IF HasCautionOnly(line) THEN [s EXCEPT !.caution = @ + 1]
         ELSE [s EXCEPT !.otherResult = TRUE]
    ELSE IF IsIndented(line)
    THEN IF HasPass(line) THEN [s EXCEPT !.indentedPass = @ + 1]
         ELSE IF HasCautionOnly(line)
         THEN [s EXCEPT !.indentedCaution = @ + 1]
         ELSE [s EXCEPT !.indentedOther = TRUE]
    ELSE IF HasPass(line) \/ HasCautionOnly(line)
    THEN [s EXCEPT !.symbolsElsewhere = TRUE]
    ELSE s

ScoringLines(s) == s.pass + s.caution + s.indentedPass + s.indentedCaution

SelectIdle ==
    /\ folder = {}
    /\ runs = <<>>

UploadIdle ==
    /\ pc = <<>>
    /\ saved = <<>>
    /\ all_drawings = <<>>
    /\ drawing_index = <<>>
    /\ item = <<>>
    /\ report_links = <<>>
    /\ summary_table = <<>>
    /\ steps = <<>>
    /\ processed_reports = {}

ScoreIdle ==
    /\ total = 0
    /\ risk = "none"
    /\ seen = NothingSeen

InitScore ==
    /\ ScoreIdle
    /\ SelectIdle
    /\ UploadIdle

\* One line of report_text goes through the loop
ReadLine ==
    /\ risk = "none"
    /\ ScoringLines(seen) < MaxLines
    /\ \E line \in LineUniverse :
           /\ IsIndented(line) =>
                  seen.indentedPass + seen.indentedCaution < MaxIndented
           /\ total' = ScoreLine(total, line)
           /\ seen' = Noted(seen, line)
    /\ UNCHANGED <<risk, selectVars, uploadVars>>

\* The lines are exhausted: the tier is computed and the pair returned
Classify ==
    /\ risk = "none"
    /\ risk' = RiskOf(total)
    /\ UNCHANGED <<total, seen, selectVars, uploadVars>>

NextScore == ReadLine \/ Classify

SpecScore == InitScore /\ [][NextScore]_vars

---------------------------------------------------------------------------
(* upload *)

UPLOAD_FOLDER == <<"u", "p", "l", "o", "a", "d", "s">>

PROCESSED_FOLDER ==
    <<"p", "r", "o", "c", "e", "s", "s", "e", "d", "_", "r", "e", "p", "o",
      "r", "t", "s">>

\* session_folder: the session id is unique to the request
SessionFolder(s) == PathJoin(UPLOAD_FOLDER, <<"s", Ascii[Ord("0") + s]>>)

\* match.group(1) if match else filename
Identity(filename) ==
    IF MatchOf[filename].matched THEN MatchOf[filename].base ELSE filename

\* drawing_index.setdefault(number, []).append(filename), for each path
RECURSIVE BuildIndex(_, _)
BuildIndex(index, paths) ==
    IF paths = <<>> THEN index
    ELSE LET filename == Basename(Head(paths))
             number == Identity(filename)
             had == IF DictHas(index, number)
                    THEN DictGet(index, number).value ELSE <<>>
         IN  BuildIndex(DictSet(index, number, Append(had, filename)),
                        Tail(paths))

\* filename.split('-')[2] raises IndexError when the name has one or two
\* parts around its hyphens
DrawingNumberRaises(filename) ==
    Contains(filename, "-") /\ Len(Split(filename, "-")) < 3

PdfSuffix == <<".", "p", "d", "f">>

\* filename.endswith('.pdf')
IsPdf(filename) == EndsWith(filename, PdfSuffix)

\* filename.endswith(('.dwg', '.dxf'))
IsCad(filename) ==
    EndsWith(filename, <<".", "d", "w", "g">>)
        \/ EndsWith(filename, <<".", "d", "x", "f">>)

\* input_path.replace('.pdf', '_annotated.pdf')
RECURSIVE AnnotatedPath(_)
AnnotatedPath(path) ==
    IF path = <<>> THEN <<>>
    ELSE IF HasAt(path, 1, PdfSuffix)
    THEN <<"_", "a", "n", "n", "o", "t", "a", "t", "e", "d">> \o PdfSuffix
             \o AnnotatedPath(SubSeq(path, Len(PdfSuffix) + 1, Len(path)))
    ELSE <<Head(path)>> \o AnnotatedPath(Tail(path))

ReportSuffix ==
    <<"_", "Q", "A", "_", "R", "e", "p", "o", "r", "t", ".", "d", "o", "c",
      "x">>

\* The path generate_docx_report saves to and returns
generate_docx_report(drawing_name) ==
    PathJoin(PROCESSED_FOLDER,
             ReplaceChar(drawing_name, ".", "_") \o ReportSuffix)

\* The replies of the reasoning service
ReplyClean == <<LinePass, LinePass, LineNote, LineIndentedPass>>
ReplyFlagged == <<LinePass, LineCaution, LineFail, LineEmpty>>

GptReplies == {ReplyClean, ReplyFlagged}

\* doc.save(path): the file at path is replaced
Saved(reports, path, s, filename) ==
    {r \in reports : r.path # path}
        \cup {[path |-> path, session |-> s, drawing |-> filename]}

DocxEntry(filename, docx, overlay) ==
    [kind |-> "docx", file |-> filename, docx |-> docx,
     pdf_overlay |-> overlay]

\* {"error": f"Failed to process {filename}: {e}"}
ErrorEntry(filename) ==
    [kind |-> "error", file |-> filename, docx |-> <<>>, pdf_overlay |-> <<>>]

Sessions == DOMAIN pc

CurrentPath(s) == all_drawings[s][item[s]]

CurrentFile(s) == Basename(CurrentPath(s))

InLoop(s) == pc[s] = "loop" /\ item[s] <= Len(all_drawings[s])

\* The loop moves on, having attempted the stages up to `reached`
Advance(s, reached) ==
    /\ item' = [item EXCEPT ![s] = @ + 1]
    /\ steps' = [steps EXCEPT
                   ![s] = Append(@, [file |-> CurrentFile(s),
                                     reached |-> reached])]

\* The request arrives: its files are saved (zip bundles extracted), the
\* latest revisions selected and the index built
Upload(s, universe, most) ==
    /\ pc[s] = "idle"
    /\ \E names \in SUBSET universe :
           /\ Cardinality(names) <= most
           /\ \E listing \in Listings(names) :
                  LET work == get_latest_revisions(SessionFolder(s), listing)
                  IN  /\ saved' = [saved EXCEPT ![s] = names]
                      /\ all_drawings' = [all_drawings EXCEPT ![s] = work]
                      /\ drawing_index' =
                             [drawing_index EXCEPT
                                ![s] = BuildIndex(<<>>, work)]
    /\ pc' = [pc EXCEPT ![s] = "loop"]
    /\ UNCHANGED <<item, report_links, summary_table, steps,
                   processed_reports, selectVars, scoreVars>>

\* filename.split('-')[2] raises before the try block is entered: the
\* exception leaves upload
RaiseIndexError(s) ==
    /\ InLoop(s)
    /\ DrawingNumberRaises(CurrentFile(s))
    /\ pc' = [pc EXCEPT ![s] = "raised"]
    /\ UNCHANGED <<saved, all_drawings, drawing_index, item, report_links,
                   summary_table, steps, processed_reports, selectVars,
                   scoreVars>>

\* Neither endswith test holds: continue
SkipItem(s) ==
    /\ InLoop(s)
    /\ ~DrawingNumberRaises(CurrentFile(s))
    /\ ~IsPdf(CurrentFile(s)) /\ ~IsCad(CurrentFile(s))
    /\ Advance(s, "skipped")
    /\ UNCHANGED <<pc, saved, all_drawings, drawing_index, report_links,
                   summary_table, processed_reports, selectVars, scoreVars>>

Readable(s) ==
    /\ InLoop(s)
    /\ ~DrawingNumberRaises(CurrentFile(s))
    /\ IsPdf(CurrentFile(s)) \/ IsCad(CurrentFile(s))

\* read_pdf_text, read_dxf_text, call_gpt or doc.save raises: the except
\* clause appends the error entry
FailItem(s) ==
    /\ Readable(s)
    /\ \E reached \in {"extract_failed", "assess_failed", "report_failed"} :
           Advance(s, reached)
    /\ report_links' = [report_links EXCEPT
                          ![s] = Append(@, ErrorEntry(CurrentFile(s)))]
    /\ UNCHANGED <<pc, saved, all_drawings, drawing_index, summary_table,
                   processed_reports, selectVars, scoreVars>>

\* The report is saved and its entry appended, then annotate_pdf raises
FailAnnotation(s) ==
    /\ Readable(s)
    /\ IsPdf(CurrentFile(s))
    /\ LET docx_path == generate_docx_report(CurrentFile(s))
       IN  /\ processed_reports' =
                  Saved(processed_reports, docx_path, s, CurrentFile(s))
           /\ report_links' =
                  [report_links EXCEPT
                     ![s] = @ \o <<DocxEntry(CurrentFile(s), docx_path, <<>>),
                                   ErrorEntry(CurrentFile(s))>>]
    /\ Advance(s, "annotate_failed")
    /\ UNCHANGED <<pc, saved, all_drawings, drawing_index, summary_table,
                   selectVars, scoreVars>>

\* Every stage succeeds: the entry and the summary row are appended
FinishItem(s) ==
    /\ Readable(s)
    /\ \E gpt_result \in GptReplies :
           LET scored == score_compliance(gpt_result)
               docx_path == generate_docx_report(CurrentFile(s))
               overlay == IF IsPdf(CurrentFile(s))
                          THEN AnnotatedPath(CurrentPath(s)) ELSE <<>>
           IN  /\ processed_reports' =
                      Saved(processed_reports, docx_path, s, CurrentFile(s))
               /\ report_links' =
                      [report_links EXCEPT
                         ![s] = Append(@, DocxEntry(CurrentFile(s), docx_path,
                                                    overlay))]
               /\ summary_table' =
                      [summary_table EXCEPT
                         ![s] = Append(@, [drawing |-> CurrentFile(s),
                                           score |-> scored.score,
                                           risk |-> scored.risk])]
    /\ Advance(s, "done")
    /\ UNCHANGED <<pc, saved, all_drawings, drawing_index, selectVars,
                   scoreVars>>

\* The work list is exhausted: jsonify(...) is returned
Return(s) ==
    /\ pc[s] = "loop"
    /\ item[s] > Len(all_drawings[s])
    /\ pc' = [pc EXCEPT ![s] = "returned"]
    /\ UNCHANGED <<saved, all_drawings, drawing_index, item, report_links,
                   summary_table, steps, processed_reports, selectVars,
                   scoreVars>>

InitUpload(sessions) ==
    /\ pc = [s \in sessions |-> "idle"]
    /\ saved = [s \in sessions |-> {}]
    /\ all_drawings = [s \in sessions |-> <<>>]
    /\ drawing_index = [s \in sessions |-> <<>>]
    /\ item = [s \in sessions |-> 1]
    /\ report_links = [s \in sessions |-> <<>>]
    /\ summary_table = [s \in sessions |-> <<>>]
    /\ steps = [s \in sessions |-> <<>>]
    /\ processed_reports = {}
    /\ SelectIdle
    /\ ScoreIdle

\* One request
Init == InitUpload({1})

Next ==
    \/ \E s \in Sessions : Upload(s, FileUniverse, MaxFiles)
    \/ \E s \in Sessions : RaiseIndexError(s)
    \/ \E s \in Sessions : SkipItem(s)
    \/ \E s \in Sessions : FailItem(s)
    \/ \E s \in Sessions : FailAnnotation(s)
    \/ \E s \in Sessions : FinishItem(s)
    \/ \E s \in Sessions : Return(s)

Spec == Init /\ [][Next]_vars

\* Two requests served by two threads, each with a few files.  None of the
\* names has a hyphen, so split('-')[2] is not reached.
SharedNames == {F_PLAN, F_a_dot_b, F_a_under_b}

MaxSessionFiles == 2

InitSessions == InitUpload({1, 2})

NextSessions ==
    \/ \E s \in Sessions : Upload(s, SharedNames, MaxSessionFiles)
    \/ \E s \in Sessions : SkipItem(s)
    \/ \E s \in Sessions : FailItem(s)
    \/ \E s \in Sessions : FailAnnotation(s)
    \/ \E s \in Sessions : FinishItem(s)
    \/ \E s \in Sessions : Return(s)

SpecSessions == InitSessions /\ [][NextSessions]_vars

---------------------------------------------------------------------------
(* Selection on one folder: files are saved, then get_latest_revisions is  *)
(* called on the folder twice.                                             *)

InitSelect ==
    /\ SelectIdle
    /\ UploadIdle
    /\ ScoreIdle

\* file.save(path) / extract_zip: one more name in the session folder
SaveFile ==
    /\ runs = <<>>
    /\ Cardinality(folder) < MaxFiles
    /\ \E f \in FileUniverse \ folder : folder' = folder \cup {f}
    /\ UNCHANGED <<runs, uploadVars, scoreVars>>

\* get_latest_revisions(session_folder)
Select ==
    /\ folder # {}
    /\ Len(runs) < 2
    /\ \E listing \in Listings(folder) :
           runs' = Append(runs,
                          [listing |-> listing,
                           work |-> get_latest_revisions(SessionFolder(1),
                                                         listing)])
    /\ UNCHANGED <<folder, uploadVars, scoreVars>>

NextSelect == SaveFile \/ Select

SpecSelect == InitSelect /\ [][NextSelect]_vars

---------------------------------------------------------------------------
(* Properties of the selection *)

Range(f) == {f[i] : i \in DOMAIN f}

\* The extension of a name, lower-cased: what follows its last '.'
ExtensionOf(filename) ==
    LET parts == Split(filename, ".")
    IN  IF Len(parts) < 2 THEN <<>> ELSE Lower(parts[Len(parts)])

Recognized(filename) ==
    ExtensionOf(filename)
        \in {<<"p", "d", "f">>, <<"d", "w", "g">>, <<"d", "x", "f">>}

\* The value of a string of decimal digits
RECURSIVE NumValue(_)
NumValue(digits) ==
    IF digits = <<>> THEN 0
    ELSE 10 * NumValue(SubSeq(digits, 1, Len(digits) - 1))
             + (Ord(digits[Len(digits)]) - Ord("0"))

RecognizedNames == {f \in FileUniverse : Recognized(f)}

Parses(filename) == MatchOf[filename].matched

\* The number after the leading letter of the revision of a name
NumericSuffix(filename) == NumValue(Tail(MatchOf[filename].rev))

Chosen(run) == {Basename(run.work[i]) : i \in 1..Len(run.work)}

Candidates == folder \cap RecognizedNames

\* C1: in every run of get_latest_revisions, whatever the order of the
\* listing, the file chosen for a drawing identity has a numeric revision
\* suffix at least that of every other file of its group; of
\* DR-AB-100-C1.pdf, DR-AB-100-C2.pdf and DR-AB-100-P10.pdf the chosen one
\* is DR-AB-100-P10.pdf.
C1_ChosenHasGreatestSuffix ==
    \A r \in Range(runs) :
        /\ \A c \in Chosen(r) : \A f \in Candidates :
               (Parses(c) /\ Parses(f) /\ Identity(c) = Identity(f))
                   => NumericSuffix(c) >= NumericSuffix(f)
        /\ folder = {F_C1, F_C2, F_P10} => Chosen(r) = {F_P10}

\* C2: the work list of every run holds exactly one file per drawing
\* identity found among the files with a recognized extension: each of
\* these identities has a chosen file, no identity has two, and every
\* chosen file is one of these files.
C2_OneWorkItemPerIdentity ==
    \A r \in Range(runs) :
        /\ {Identity(c) : c \in Chosen(r)} = {Identity(f) : f \in Candidates}
        /\ \A i, j \in 1..Len(r.work) :
               i # j => Identity(Basename(r.work[i]))
                            # Identity(Basename(r.work[j]))
        /\ Chosen(r) \subseteq Candidates

\* A run over a folder that holds two revisions of one drawing, a name that
\* does not parse and a name written with an upper-case extension or none
\* recognized
C2_Witness ==
    /\ runs # <<>>
    /\ \E f, g \in Candidates : f # g /\ Identity(f) = Identity(g)
    /\ \E h \in folder : ~Parses(h) /\ (h \notin Candidates \/ h = F_PLAN)

\* C8: two runs of the selection on the same files yield the same set of
\* work items, whatever the two listings' orders and also when two files
\* of a group have equal suffixes.
C8_SelectionRepeats ==
    Len(runs) = 2 => Range(runs[1].work) = Range(runs[2].work)

\* Two runs given the same listing choose the same files
SameListingSameWork ==
    (Len(runs) = 2 /\ runs[1].listing = runs[2].listing)
        => runs[1].work = runs[2].work

---------------------------------------------------------------------------
(* Properties of the score *)

Finished == risk # "none"

\* C5: the score never exceeds the checklist size, 30 points, whatever the
\* number of Result: lines.
C5_ScoreAtMostChecklist == total <= 2 * ChecklistSize

\* C6: the tier is decided by the score alone: 27 and more is Low, from 20
\* up to 27 is Medium, below 20 is High; so 27 is Low, 26.5 and 20 are
\* Medium, 19.5 is High (54, 53, 40 and 39 half points).
C6_RiskFollowsScore ==
    Finished =>
        /\ total >= 54 => risk = "Low"
        /\ (total >= 40 /\ total < 54) => risk = "Medium"
        /\ total < 40 => risk = "High"
        /\ total = 54 => risk = "Low"
        /\ total = 53 => risk = "Medium"
        /\ total = 40 => risk = "Medium"
        /\ total = 39 => risk = "High"

\* A text scored at 26.5 and classified
C6_Witness == Finished /\ total = 53 /\ risk = "Medium"

\* C7 as stated: with k lines that start with Result: and hold the pass
\* symbol, m that start with Result: and hold the caution symbol only, and
\* no other line that starts with Result:, the score is k + m/2, the other
\* lines adding nothing.
C7_ScoreCountsMarkedLines ==
    (Finished /\ ~seen.otherResult) => total = 2 * seen.pass + seen.caution

\* C7 amended: a line counts as a Result: line when it starts with Result:
\* once its leading and trailing whitespace is stripped; with k such lines
\* holding the pass symbol, m holding the caution symbol only and no other
\* such line, the score is k + m/2, the other lines adding nothing.
C7_ScoreCountsStrippedLines ==
    (Finished /\ ~seen.otherResult /\ ~seen.indentedOther) =>
        total = 2 * (seen.pass + seen.indentedPass)
                    + (seen.caution + seen.indentedCaution)

\* A scored text with pass lines and caution lines, one of them indented,
\* and symbols on lines that are no Result: line
C7_Witness ==
    /\ Finished
    /\ ~seen.otherResult /\ ~seen.indentedOther
    /\ seen.pass >= 2
    /\ seen.caution >= 1
    /\ seen.indentedPass >= 1
    /\ seen.symbolsElsewhere

---------------------------------------------------------------------------
(* Properties of upload *)

IndexedNames(s) ==
    UNION {Range(drawing_index[s][i].value) : i \in 1..Len(drawing_index[s])}

WorkNames(s) == {Basename(p) : p \in Range(all_drawings[s])}

\* C3: the filename lists of drawing_index together are the files of the
\* session with a recognized extension, superseded revisions included; a
\* file with another extension is in neither the work list nor the index.
C3_IndexHoldsEveryFile ==
    \A s \in Sessions :
        pc[s] # "idle" =>
            /\ IndexedNames(s) = saved[s] \cap RecognizedNames
            /\ \A f \in saved[s] \ RecognizedNames :
                   f \notin WorkNames(s) \cup IndexedNames(s)

FailedEarly(step) == step.reached \in {"extract_failed", "assess_failed"}

\* C4: when extraction or the reasoning call fails for a work item, the
\* reports list gets an error entry naming the file, the file gets no
\* summary row and no report; the items after it are still processed and
\* the result is returned: upload is not left by an exception.
C4_FailureIsIsolated ==
    \A s \in Sessions : \A step \in Range(steps[s]) :
        FailedEarly(step) =>
            /\ \E e \in Range(report_links[s]) :
                   e.kind = "error" /\ e.file = step.file
            /\ \A row \in Range(summary_table[s]) : row.drawing # step.file
            /\ \A e \in Range(report_links[s]) :
                   e.file = step.file => e.kind = "error"
            /\ \A r \in processed_reports :
                   ~(r.session = s /\ r.drawing = step.file)
            /\ pc[s] # "raised"

\* What a failed extraction or reasoning call leaves behind for its own
\* file: the error entry, no summary row, no report
EarlyFailureLeavesErrorOnly ==
    \A s \in Sessions : \A step \in Range(steps[s]) :
        FailedEarly(step) =>
            /\ \E e \in Range(report_links[s]) :
                   e.kind = "error" /\ e.file = step.file
            /\ \A row \in Range(summary_table[s]) : row.drawing # step.file
            /\ \A e \in Range(report_links[s]) :
                   e.file = step.file => e.kind = "error"
            /\ \A r \in processed_reports :
                   ~(r.session = s /\ r.drawing = step.file)

\* The loop is left by an exception only at a name with one hyphen
RaisedOnlyAtOneHyphen ==
    \A s \in Sessions :
        pc[s] = "raised" => Len(Split(CurrentFile(s), "-")) = 2

\* C9: once the loop has finished, the reports list holds one entry per
\* work item, in the order of the work list.
C9_OneEntryPerWorkItem ==
    \A s \in Sessions :
        pc[s] = "returned" =>
            /\ Len(report_links[s]) = Len(all_drawings[s])
            /\ \A i \in 1..Len(report_links[s]) :
                   report_links[s][i].file = Basename(all_drawings[s][i])

\* The report entries of all sessions, each with its work item
ReportsGiven ==
    UNION {{[session |-> s, entry |-> e] :
               e \in {x \in Range(report_links[s]) : x.kind = "docx"}} :
           s \in Sessions}

\* C10: two distinct work items, of one session or of two, never get the
\* same report path, and the report of one is never replaced by another's.
C10_ReportPathsDistinct ==
    /\ \A a, b \in ReportsGiven :
           (a.session # b.session \/ a.entry.file # b.entry.file)
               => a.entry.docx # b.entry.docx
    /\ \A a \in ReportsGiven :
           [path |-> a.entry.docx, session |-> a.session,
            drawing |-> a.entry.file] \in processed_reports

=============================================================================
